---- MODULE Spec2Model ----
(***************************************************************************)
(* A model of api/flood.py: the flood-hazard lookup served per request.    *)
(*                                                                         *)
(* Numbers.  The program computes in IEEE doubles; the model computes in   *)
(* integers.  Planar coordinates (Web Mercator) are whole kilometres.  The *)
(* one division of the program (the x of an edge crossing) is never        *)
(* carried out: the comparison it feeds is cross-multiplied, which for     *)
(* integer operands of this size gives the answer the doubles give.        *)
(*                                                                         *)
(* Exceptions.  A Python call either returns or raises.  Every modelled    *)
(* function yields a record whose field exc is "" for a return and the     *)
(* exception's class name for a raise.                                     *)
(***************************************************************************)
EXTENDS Integers, Sequences, FiniteSets, TLC

VARIABLES
    flood_data_cache,   \* the module global _flood_data_cache
    call,               \* the operation invoked last, with its arguments
    ret                 \* what that operation returned, raised or sent

vars == <<flood_data_cache, call, ret>>

\* Bounds of the model.
GridMax == 2        \* ring vertices of the classifier runs lie in 0..GridMax squared
MaxRingLen == 4     \* most vertices of a ring in the classifier runs
MaxFeatures == 2    \* most features of a dataset in the query runs

Min(a, b) == IF a <= b THEN a ELSE b
Max(a, b) == IF a >= b THEN a ELSE b

(***************************************************************************)
(* point_in_polygon                                                        *)
(***************************************************************************)

\* A mutant of EdgeCandidate: the interval closed at both ends, so that a
\* vertex the ray passes through is counted for both of its edges.
EdgeCandidateClosed(y, y1, y2) == Min(y1, y2) <= y /\ y <= Max(y1, y2)

\* if min(y1, y2) < y <= max(y1, y2)
EdgeCandidate(y, y1, y2) == Min(y1, y2) < y /\ y <= Max(y1, y2)

\* x <= x_intersection, where
\*   x_intersection = (y - y1) * (x2 - x1) / (y2 - y1) + x1
\* is assigned only when y1 != y2.  Inside EdgeCandidate y1 # y2 always
\* holds (min < max), so the name is never read unassigned.
LeqIntersection(x, y, x1, y1, x2, y2) ==
    IF y2 > y1
    THEN (x - x1) * (y2 - y1) <= (y - y1) * (x2 - x1)
    ELSE (x - x1) * (y2 - y1) >= (y - y1) * (x2 - x1)

\* The body of the for loop for the edge (x1, y1) -> (x2, y2): does it
\* toggle inside?
EdgeToggles(x, y, x1, y1, x2, y2) ==
    /\ EdgeCandidate(y, y1, y2)
    /\ x <= Max(x1, x2)
    /\ (x1 = x2 \/ LeqIntersection(x, y, x1, y1, x2, y2))

\* for i in range(n): i here is the Python index plus one; the previous
\* vertex of the first edge is polygon[-1].
RECURSIVE EdgeLoop(_, _, _, _, _)
EdgeLoop(x, y, polygon, i, inside) ==
    IF i > Len(polygon) THEN inside
    ELSE LET p1 == IF i = 1 THEN polygon[Len(polygon)] ELSE polygon[i - 1]
             p2 == polygon[i]
             t  == EdgeToggles(x, y, p1[1], p1[2], p2[1], p2[2])
         IN  EdgeLoop(x, y, polygon, i + 1, IF t THEN ~inside ELSE inside)

\* polygon[-1] of an empty list raises IndexError before the loop.
point_in_polygon(x, y, polygon) ==
    IF Len(polygon) = 0
    THEN [exc |-> "IndexError", inside |-> FALSE]
    ELSE [exc |-> "", inside |-> EdgeLoop(x, y, polygon, 1, FALSE)]

(***************************************************************************)
(* The classifier runs: a convex ring on a small grid and a point on or    *)
(* around it.                                                              *)
(***************************************************************************)

GridPoints == (0..GridMax) \X (0..GridMax)
ProbePoints == (-1..(GridMax + 1)) \X (-1..(GridMax + 1))

\* Twice the signed area of the triangle a, b, p: positive when p lies to
\* the left of the directed line a -> b.
Cross(a, b, p) == (b[1] - a[1]) * (p[2] - a[2]) - (b[2] - a[2]) * (p[1] - a[1])

Succ(r, i) == IF i = Len(r) THEN r[1] ELSE r[i + 1]

Distinct(r) == \A i, j \in 1..Len(r) : i # j => r[i] # r[j]

\* A ring is convex when its vertices are distinct and every vertex lies on
\* one and the same side of (or on) the line of every edge, and it
\* encloses some area.
ConvexSide(r, s) ==
    \A i \in 1..Len(r) : \A k \in 1..Len(r) : s * Cross(r[i], Succ(r, i), r[k]) >= 0

HasArea(r) == \E i, k \in 1..Len(r) : Cross(r[i], Succ(r, i), r[k]) # 0

IsConvexChain(r) == Distinct(r) /\ (ConvexSide(r, 1) \/ ConvexSide(r, -1))

\* Every run of leading vertices of a convex ring is a convex chain, so the
\* rings are grown vertex by vertex.
RECURSIVE ChainsOfLen(_)
ChainsOfLen(n) ==
    IF n = 0 THEN {<<>>}
    ELSE {c \in {Append(r, p) : r \in ChainsOfLen(n - 1), p \in GridPoints} :
            IsConvexChain(c)}

ConvexRings ==
    {r \in UNION {ChainsOfLen(n) : n \in 3..MaxRingLen} : HasArea(r)}

InitContains ==
    /\ flood_data_cache = [set |-> FALSE, data |-> <<>>]
    /\ \E polygon \in ConvexRings, p \in ProbePoints :
          call = [op |-> "point_in_polygon", x |-> p[1], y |-> p[2],
                  polygon |-> polygon, done |-> FALSE]
    /\ ret = [exc |-> "", inside |-> FALSE]

Classify ==
    /\ call.op = "point_in_polygon"
    /\ ~call.done
    /\ call' = [call EXCEPT !.done = TRUE]
    /\ ret' = point_in_polygon(call.x, call.y, call.polygon)
    /\ UNCHANGED flood_data_cache

NextContains == Classify

SpecContains == InitContains /\ [][NextContains]_vars

\* The point lies on the closed segment a-b.
OnSegment(a, b, p) ==
    /\ Cross(a, b, p) = 0
    /\ Min(a[1], b[1]) <= p[1] /\ p[1] <= Max(a[1], b[1])
    /\ Min(a[2], b[2]) <= p[2] /\ p[2] <= Max(a[2], b[2])

OnBoundary(r, p) == \E i \in 1..Len(r) : OnSegment(r[i], Succ(r, i), p)

\* Strictly inside a convex ring: strictly on the inner side of every edge.
StrictlyInside(r, p) ==
    \/ \A i \in 1..Len(r) : Cross(r[i], Succ(r, i), p) > 0
    \/ \A i \in 1..Len(r) : Cross(r[i], Succ(r, i), p) < 0

\* C7: for a convex ring with integer vertices and a point off its boundary,
\* point_in_polygon returns true exactly when the point is strictly inside.
C7_EvenOddOnConvexRings ==
    (call.op = "point_in_polygon" /\ call.done
        /\ ~OnBoundary(call.polygon, <<call.x, call.y>>))
    => /\ ret.exc = ""
       /\ ret.inside = StrictlyInside(call.polygon, <<call.x, call.y>>)

\* C7 witness: a point strictly inside a ring whose rightward ray passes
\* exactly through a vertex of the ring, classified as inside.
C7_Witness ==
    /\ call.op = "point_in_polygon" /\ call.done
    /\ StrictlyInside(call.polygon, <<call.x, call.y>>)
    /\ \E i \in 1..Len(call.polygon) :
          call.polygon[i][2] = call.y /\ call.polygon[i][1] > call.x
    /\ ret.inside

(***************************************************************************)
(* lat_lon_to_web_mercator                                                 *)
(***************************************************************************)

\* The sampled inputs, in whole degrees.
Latitudes == {-90, 10, 20, 30, 90}
Longitudes == {10, 20, 30}

\* x = R * math.radians(lon) with R = 6378137.0, in whole kilometres:
\* 1113194.9 m, 2226389.8 m, 3339584.7 m.
MercatorX(lon) ==
    CASE lon = 10 -> 1113
      [] lon = 20 -> 2226
      [] lon = 30 -> 3340

\* y = R * math.log(math.tan(math.pi / 4 + lat_rad / 2)), in whole
\* kilometres: 1118890.0 m, 2273030.9 m, 3503549.8 m.  At lat = 90 the
\* double nearest pi/2 is below pi/2, math.tan returns 1.633e16 and y is
\* the finite 238107693.3 m.
MercatorY(lat) ==
    CASE lat = 10 -> 1119
      [] lat = 20 -> 2273
      [] lat = 30 -> 3504
      [] lat = 90 -> 238108

\* At lat = -90 the argument pi/4 + lat_rad/2 is exactly 0.0, math.tan
\* returns 0.0 and math.log(0.0) raises ValueError (math domain error).
lat_lon_to_web_mercator(lat, lon) ==
    IF lat = -90
    THEN [exc |-> "ValueError", x |-> 0, y |-> 0]
    ELSE [exc |-> "", x |-> MercatorX(lon), y |-> MercatorY(lat)]

(***************************************************************************)
(* find_flood_hazard                                                       *)
(***************************************************************************)

\* What find_flood_hazard yields: a raise, None, or a hazard label.
Raise(e) == [exc |-> e, found |-> FALSE, hazard |-> ""]
ReturnNone == [exc |-> "", found |-> FALSE, hazard |-> ""]
Return(h) == [exc |-> "", found |-> TRUE, hazard |-> h]

\* Mutants of InBounds: the box open on all four sides, and no box test.
InBoundsExclusive(bounds, x, y) ==
    /\ bounds.minx < x /\ x < bounds.maxx
    /\ bounds.miny < y /\ y < bounds.maxy

InBoundsSkipped(bounds, x, y) == TRUE

\* bounds['minx'] <= x <= bounds['maxx'] and bounds['miny'] <= y <= bounds['maxy']
InBounds(bounds, x, y) ==
    /\ bounds.minx <= x /\ x <= bounds.maxx
    /\ bounds.miny <= y /\ y <= bounds.maxy

RECURSIVE RingLoopEvenOdd(_, _, _, _)
\* A mutant of RingLoop: rings after the first are holes, so the feature
\* matches when an odd number of its rings contain the point.
RingLoopEvenOdd(x, y, coordinates, k) ==
    IF k > Len(coordinates) THEN [exc |-> "", inside |-> FALSE]
    ELSE LET r == point_in_polygon(x, y, coordinates[k])
             rest == RingLoopEvenOdd(x, y, coordinates, k + 1)
         IN  IF r.exc # "" THEN r
             ELSE IF rest.exc # "" THEN rest
             ELSE [exc |-> "", inside |-> (r.inside # rest.inside)]

\* for ring in geometry['coordinates']: if point_in_polygon(x, y, ring):
\* the first ring that contains the point ends the loop; a raise of
\* point_in_polygon passes through.
RECURSIVE RingLoop(_, _, _, _)
RingLoop(x, y, coordinates, k) ==
    IF k > Len(coordinates) THEN [exc |-> "", inside |-> FALSE]
    ELSE LET r == point_in_polygon(x, y, coordinates[k])
         IN  IF r.exc # "" \/ r.inside THEN r
             ELSE RingLoop(x, y, coordinates, k + 1)

\* A mutant of GeometryStep: the geometry type is not looked at, and the
\* coordinates of a geometry that is no Polygon (numbers, not rings) reach
\* point_in_polygon, whose len() of a number raises TypeError.
GeometryStepTypeBlind(x, y, feature) ==
    IF "geometry" \notin feature.keys THEN [exc |-> "KeyError", inside |-> FALSE]
    ELSE IF feature.type # "Polygon" THEN [exc |-> "TypeError", inside |-> FALSE]
    ELSE RingLoop(x, y, feature.coordinates, 1)

\* geometry = feature['geometry']; if geometry['type'] == 'Polygon': the
\* ring loop.  A feature without the key raises KeyError; a geometry of
\* another type is passed over.
GeometryStep(x, y, feature) ==
    IF "geometry" \notin feature.keys THEN [exc |-> "KeyError", inside |-> FALSE]
    ELSE IF feature.type # "Polygon" THEN [exc |-> "", inside |-> FALSE]
    ELSE RingLoop(x, y, feature.coordinates, 1)

\* for feature in flood_data: i is the Python index plus one.
RECURSIVE FeatureLoop(_, _, _, _)
FeatureLoop(x, y, flood_data, i) ==
    IF i > Len(flood_data) THEN ReturnNone
    ELSE LET feature == flood_data[i] IN
         IF "bounds" \notin feature.keys THEN Raise("KeyError")
         ELSE IF ~InBounds(feature.bounds, x, y)
              THEN FeatureLoop(x, y, flood_data, i + 1)
         ELSE LET g == GeometryStep(x, y, feature) IN
              IF g.exc # "" THEN Raise(g.exc)
              ELSE IF g.inside
                   THEN IF "hazard" \notin feature.keys THEN Raise("KeyError")
                        ELSE Return(feature.hazard)
              ELSE FeatureLoop(x, y, flood_data, i + 1)

find_flood_hazard(lat, lon, flood_data) ==
    LET p == lat_lon_to_web_mercator(lat, lon) IN
    IF p.exc # "" THEN Raise(p.exc)
    ELSE FeatureLoop(p.x, p.y, flood_data, 1)

(***************************************************************************)
(* The query runs: a dataset of features and a geographic point.  A        *)
(* feature is the JSON object of the dataset: keys holds the keys it has,  *)
(* and the field of an absent key is a placeholder nothing reads.          *)
(***************************************************************************)

Box(minx, miny, maxx, maxy) ==
    [minx |-> minx, miny |-> miny, maxx |-> maxx, maxy |-> maxy]

Square(a, b, c, d) == << <<a, b>>, <<c, b>>, <<c, d>>, <<a, d>> >>

WorldBox == Box(0, 0, 4000, 4000)
\* The projection of lat 20, lon 20 is the lower left corner of this box.
CornerBox == Box(2226, 2273, 4000, 4000)
PoleBox == Box(0, 200000, 4000, 250000)

BigSquare == Square(0, 0, 4000, 4000)
SmallSquare == Square(2000, 2000, 2500, 2500)
LowTriangle == << <<0, 0>>, <<4000, 0>>, <<0, 4000>> >>
PoleStrip == Square(0, 200000, 4000, 250000)

AllKeys == {"bounds", "geometry", "hazard"}

Feature(keys, bounds, type, coordinates, hazard) ==
    [keys |-> keys, bounds |-> bounds, type |-> type,
     coordinates |-> coordinates, hazard |-> hazard]

BoundsPool == {WorldBox, CornerBox}
RingsPool == { <<BigSquare>>, <<BigSquare, SmallSquare>>, <<SmallSquare, LowTriangle>> }
HazardPool == {"", "HIGH", "LOW"}

PolygonFeatures ==
    {Feature(AllKeys, b, "Polygon", c, h) :
        b \in BoundsPool, c \in RingsPool, h \in HazardPool}
        \cup {Feature(AllKeys, PoleBox, "Polygon", <<PoleStrip>>, "HIGH")}

\* A geometry of type Point; its coordinates are a pair of numbers, which
\* the model never reads.
PointFeatures ==
    {Feature(AllKeys, WorldBox, "Point", <<>>, "HIGH"),
     Feature({"geometry", "hazard"}, WorldBox, "Point", <<>>, "HIGH")}

\* Records with a key missing, or with an empty ring.
MalformedFeatures ==
    {Feature({"geometry", "hazard"}, WorldBox, "Polygon", <<BigSquare>>, "LOW"),
     Feature({"bounds", "hazard"}, WorldBox, "Polygon", <<BigSquare>>, "LOW"),
     Feature({"bounds", "geometry"}, WorldBox, "Polygon", <<BigSquare>>, "LOW"),
     Feature(AllKeys, WorldBox, "Polygon", << <<>> >>, "LOW")}

FeaturePool == PolygonFeatures \cup PointFeatures \cup MalformedFeatures

DataSets == UNION {[1..n -> FeaturePool] : n \in 0..MaxFeatures}

InitQuery ==
    /\ flood_data_cache = [set |-> FALSE, data |-> <<>>]
    /\ \E lat \in Latitudes, lon \in Longitudes, flood_data \in DataSets :
          call = [op |-> "find_flood_hazard", lat |-> lat, lon |-> lon,
                  flood_data |-> flood_data, done |-> FALSE]
    /\ ret = ReturnNone

Query ==
    /\ call.op = "find_flood_hazard"
    /\ ~call.done
    /\ call' = [call EXCEPT !.done = TRUE]
    /\ ret' = find_flood_hazard(call.lat, call.lon, call.flood_data)
    /\ UNCHANGED flood_data_cache

NextQuery == Query

SpecQuery == InitQuery /\ [][NextQuery]_vars

\* The planar point of a finished query whose projection returned.
Projected == lat_lon_to_web_mercator(call.lat, call.lon)

QueryDone == call.op = "find_flood_hazard" /\ call.done

WellFormed(f) ==
    /\ f.keys = AllKeys
    /\ f.type = "Polygon" => \A k \in 1..Len(f.coordinates) : Len(f.coordinates[k]) > 0

\* The three conditions of a match, stated on their own: the box inclusive
\* on all four sides, the type Polygon, some ring reported as containing.
BoxContains(f, x, y) ==
    /\ f.bounds.minx <= x /\ x <= f.bounds.maxx
    /\ f.bounds.miny <= y /\ y <= f.bounds.maxy

SomeRingContains(f, x, y) ==
    \E k \in 1..Len(f.coordinates) : point_in_polygon(x, y, f.coordinates[k]).inside

Matches(f, x, y) ==
    BoxContains(f, x, y) /\ f.type = "Polygon" /\ SomeRingContains(f, x, y)

FirstMatch(d, x, y) ==
    CHOOSE i \in 1..Len(d) :
        Matches(d[i], x, y) /\ \A j \in 1..(i - 1) : ~Matches(d[j], x, y)

\* C1: on a dataset of well-formed features find_flood_hazard returns the
\* label of the first feature, in dataset order, whose box contains the
\* point, whose type is Polygon and one of whose rings contains the point;
\* it returns None exactly when there is no such feature.
C1_FirstMatchInDatasetOrder ==
    (QueryDone /\ Projected.exc = ""
        /\ \A i \in 1..Len(call.flood_data) : WellFormed(call.flood_data[i]))
    => LET d == call.flood_data
           x == Projected.x
           y == Projected.y
       IN  IF \E i \in 1..Len(d) : Matches(d[i], x, y)
           THEN ret = Return(d[FirstMatch(d, x, y)].hazard)
           ELSE ret = ReturnNone

\* C1 witness: two features with different labels both match the point and
\* the label of the earlier one is returned.
C1_Witness ==
    /\ QueryDone /\ Projected.exc = ""
    /\ Len(call.flood_data) = 2
    /\ \A i \in 1..2 : WellFormed(call.flood_data[i])
                        /\ Matches(call.flood_data[i], Projected.x, Projected.y)
    /\ call.flood_data[1].hazard # call.flood_data[2].hazard
    /\ ret = Return(call.flood_data[1].hazard)

OutsideEveryBox ==
    \A i \in 1..Len(call.flood_data) :
        /\ "bounds" \in call.flood_data[i].keys
        /\ ~BoxContains(call.flood_data[i], Projected.x, Projected.y)

\* C2: a point outside the bounding box of every feature returns None,
\* whatever the rings of the features would report.
C2_OutsideEveryBoxIsNoMatch ==
    (QueryDone /\ Projected.exc = "" /\ OutsideEveryBox) => ret = ReturnNone

\* C2 witness: the point is outside every box, a ring of some feature is
\* reported as containing it, and the query returned None.
C2_Witness ==
    /\ QueryDone /\ Projected.exc = "" /\ OutsideEveryBox
    /\ \E i \in 1..Len(call.flood_data) :
          /\ WellFormed(call.flood_data[i])
          /\ call.flood_data[i].type = "Polygon"
          /\ SomeRingContains(call.flood_data[i], Projected.x, Projected.y)
    /\ ret = ReturnNone

RECURSIVE Keep(_, _)
\* The features of d that satisfy the flags keep, in order.
Keep(d, keep) ==
    IF Len(d) = 0 THEN <<>>
    ELSE IF keep[1] THEN <<d[1]>> \o Keep(Tail(d), Tail(keep))
    ELSE Keep(Tail(d), Tail(keep))

IsPolygon(f) == f.type = "Polygon"

WithoutNonPolygons(d) == Keep(d, [i \in 1..Len(d) |-> IsPolygon(d[i])])

\* C3: a feature of another geometry type that carries the bounds and
\* geometry records never raises and never supplies the result: the query
\* yields what it yields on the dataset with those features removed.
C3_NonPolygonsAreSkipped ==
    (QueryDone
        /\ \A i \in 1..Len(call.flood_data) :
              ~IsPolygon(call.flood_data[i])
                  => {"bounds", "geometry"} \subseteq call.flood_data[i].keys)
    => ret = find_flood_hazard(call.lat, call.lon, WithoutNonPolygons(call.flood_data))

\* C3 witness: a Point feature whose box contains the point comes first, a
\* matching Polygon feature second, and the Polygon's label is returned.
C3_Witness ==
    /\ QueryDone /\ Projected.exc = ""
    /\ Len(call.flood_data) = 2
    /\ call.flood_data[1].type = "Point"
    /\ call.flood_data[1].keys = AllKeys
    /\ BoxContains(call.flood_data[1], Projected.x, Projected.y)
    /\ WellFormed(call.flood_data[2])
    /\ Matches(call.flood_data[2], Projected.x, Projected.y)
    /\ ret = Return(call.flood_data[2].hazard)

WithoutMalformed(d) == Keep(d, [i \in 1..Len(d) |-> WellFormed(d[i])])

\* C4 as claimed: a malformed feature (bounds, geometry or hazard missing,
\* or an empty ring) is passed over: the query does not raise and yields
\* what it yields on the dataset with the malformed features removed.
C4_MalformedFeaturesAreSkipped ==
    (QueryDone /\ Projected.exc = "")
    => /\ ret.exc = ""
       /\ ret = find_flood_hazard(call.lat, call.lon, WithoutMalformed(call.flood_data))

\* C6 as claimed: for every latitude in [-90, 90] and every dataset of
\* well-formed features the query does not raise, and at the poles it
\* fails every bounding-box test and returns None.
C6_DegeneratePointNeverRaises ==
    (QueryDone /\ \A i \in 1..Len(call.flood_data) : WellFormed(call.flood_data[i]))
    => /\ ret.exc = ""
       /\ call.lat \in {-90, 90} => ret = ReturnNone

\* C8: rings are tested one by one and none is a hole: when the first
\* feature is a well-formed Polygon whose box contains the point and any
\* one of its rings contains the point, its label is returned.
C8_RingsTestedIndependently ==
    (QueryDone /\ Projected.exc = "" /\ Len(call.flood_data) >= 1
        /\ WellFormed(call.flood_data[1])
        /\ Matches(call.flood_data[1], Projected.x, Projected.y))
    => ret = Return(call.flood_data[1].hazard)

\* C8 witness: the point lies inside the outer ring and inside the ring
\* nested in it, and the feature's label is returned.
C8_Witness ==
    /\ QueryDone /\ Projected.exc = "" /\ Len(call.flood_data) >= 1
    /\ WellFormed(call.flood_data[1])
    /\ BoxContains(call.flood_data[1], Projected.x, Projected.y)
    /\ Len(call.flood_data[1].coordinates) = 2
    /\ \A k \in 1..2 :
          point_in_polygon(Projected.x, Projected.y,
                           call.flood_data[1].coordinates[k]).inside
    /\ ret = Return(call.flood_data[1].hazard)

(***************************************************************************)
(* load_flood_data and handler.handle_request                              *)
(***************************************************************************)

\* What urllib.request.urlopen(FLOOD_DATA_URL) and json.loads come to: a
\* raise (caught by load_flood_data), or the parsed dataset, a list.
FetchFailed == [ok |-> FALSE, data |-> <<>>]
Payloads == {d \in DataSets : Len(d) <= 1}
FetchOutcomes == {FetchFailed} \cup {[ok |-> TRUE, data |-> d] : d \in Payloads}

\* A mutant of load_flood_data: the cache is not consulted, every call
\* fetches and a successful fetch replaces the cache.
load_flood_data_uncached(cache, fetch) ==
    IF fetch.ok
    THEN [cache |-> [set |-> TRUE, data |-> fetch.data], data |-> fetch.data,
          fetched |-> TRUE]
    ELSE [cache |-> cache, data |-> <<>>, fetched |-> TRUE]

\* cache is _flood_data_cache before the call (set is "is not None"); the
\* record holds the global after the call, the value returned and whether
\* urlopen was called.
load_flood_data(cache, fetch) ==
    IF cache.set
    THEN [cache |-> cache, data |-> cache.data, fetched |-> FALSE]
    ELSE IF fetch.ok
    THEN [cache |-> [set |-> TRUE, data |-> fetch.data], data |-> fetch.data,
          fetched |-> TRUE]
    ELSE [cache |-> cache, data |-> <<>>, fetched |-> TRUE]

\* A request: the method, the ip parameter of the query string ("" when
\* there is none), the POST body (a GET carries none), and the
\* X-Forwarded-For header as the list of addresses it holds.
Requests ==
    {r \in [command : {"GET", "POST"},
            query_ip : {"", "203.0.113.7"},
            body : {"absent", "ip", "no_ip", "invalid"},
            forwarded : {<<"198.51.100.1">>, <<"198.51.100.1", "10.0.0.1">>}] :
        r.command = "GET" => r.body = "absent"}

\* The ip the handler looks up: the query parameter; else, for a POST with
\* a body, the body's "ip" (json.loads of a body that is no JSON raises);
\* else the first address of X-Forwarded-For.
ResolveIp(request) ==
    LET fromBody ==
            IF request.command = "POST" /\ request.query_ip = ""
            THEN CASE request.body = "ip" -> [exc |-> "", ip |-> "192.0.2.9"]
                   [] request.body = "invalid" -> [exc |-> "JSONDecodeError", ip |-> ""]
                   [] OTHER -> [exc |-> "", ip |-> ""]
            ELSE [exc |-> "", ip |-> request.query_ip]
    IN  IF fromBody.exc # "" \/ fromBody.ip # "" THEN fromBody
        ELSE [exc |-> "", ip |-> Head(request.forwarded)]

\* What get_ip_location(ip) comes to: None, or a location.
NoLocation == [ok |-> FALSE, lat |-> 0, lon |-> 0]
Locations == {NoLocation} \cup {[ok |-> TRUE, lat |-> lat, lon |-> 20] : lat \in Latitudes}

ErrorResponse(code, message, ip) ==
    [code |-> code, error |-> message, ip |-> ip,
     flood_hazard |-> "", in_flood_zone |-> FALSE]

\* 'flood_hazard': hazard if hazard else 'NONE' (None and '' are falsy);
\* 'in_flood_zone': hazard is not None.
SuccessResponse(ip, hazard) ==
    [code |-> 200, error |-> "", ip |-> ip,
     flood_hazard |-> IF hazard.found /\ hazard.hazard # "" THEN hazard.hazard ELSE "NONE",
     in_flood_zone |-> hazard.found]

NotLoaded == [called |-> FALSE, data |-> <<>>, fetched |-> FALSE]

\* A mutant of DataUnavailable: an empty dataset is not told apart.
DataUnavailableNever(flood_data) == FALSE

\* if not flood_data
DataUnavailable(flood_data) == Len(flood_data) = 0

\* handle_request with the outcomes of its collaborators: the global after
\* the request, the response sent and what load_flood_data did for it.
handle_request(cache, request, location, fetch) ==
    LET r == ResolveIp(request) IN
    IF r.exc # ""
    THEN [cache |-> cache, loaded |-> NotLoaded,
          response |-> ErrorResponse(500, "Internal server error", "")]
    ELSE IF ~location.ok
    THEN [cache |-> cache, loaded |-> NotLoaded,
          response |-> ErrorResponse(400, "Could not determine location for IP", r.ip)]
    ELSE LET l == load_flood_data(cache, fetch)
             loaded == [called |-> TRUE, data |-> l.data, fetched |-> l.fetched]
         IN  IF DataUnavailable(l.data)
             THEN [cache |-> l.cache, loaded |-> loaded,
                   response |-> ErrorResponse(500, "Failed to load flood hazard data", r.ip)]
             ELSE LET hazard == find_flood_hazard(location.lat, location.lon, l.data)
                  IN  IF hazard.exc # ""
                      THEN [cache |-> l.cache, loaded |-> loaded,
                            response |-> ErrorResponse(500, "Internal server error", r.ip)]
                      ELSE [cache |-> l.cache, loaded |-> loaded,
                            response |-> SuccessResponse(r.ip, hazard)]

\* The fetch is an input only of a call that reaches urlopen.
FetchChoices(reaches) == IF reaches THEN FetchOutcomes ELSE {FetchFailed}

Init ==
    /\ flood_data_cache = [set |-> FALSE, data |-> <<>>]
    /\ call = [op |-> "cold_start"]
    /\ ret = [op |-> "cold_start"]

LoadFloodData ==
    \E fetch \in FetchChoices(~flood_data_cache.set) :
        LET l == load_flood_data(flood_data_cache, fetch) IN
        /\ flood_data_cache' = l.cache
        /\ call' = [op |-> "load_flood_data", fetch |-> fetch]
        /\ ret' = [data |-> l.data, fetched |-> l.fetched]

HandleRequest ==
    \E request \in Requests, location \in Locations :
        \E fetch \in FetchChoices(~flood_data_cache.set
                                    /\ ResolveIp(request).exc = "" /\ location.ok) :
            LET h == handle_request(flood_data_cache, request, location, fetch) IN
            /\ flood_data_cache' = h.cache
            /\ call' = [op |-> "handle_request", request |-> request,
                        location |-> location]
            /\ ret' = [response |-> h.response, loaded |-> h.loaded]

Next == LoadFloodData \/ HandleRequest

Spec == Init /\ [][Next]_vars

Handled == call.op = "handle_request"

\* The dataset the request loaded, or would load, is empty.
DatasetEmpty ==
    \/ ret.loaded.called /\ Len(ret.loaded.data) = 0
    \/ flood_data_cache.set /\ Len(flood_data_cache.data) = 0

Unavailable(response) ==
    response.code = 500 /\ response.error = "Failed to load flood hazard data"

\* C5 as claimed: when the loaded dataset is empty every request is
\* answered with HTTP 500 "Failed to load flood hazard data".
C5_EveryRequestUnavailable ==
    (Handled /\ DatasetEmpty) => Unavailable(ret.response)

\* C5 amended: when the loaded dataset is empty, every request that gets as
\* far as loading it is answered with HTTP 500 "Failed to load flood hazard
\* data", and no request is answered with a 200.
C5_LoadedEmptyIsUnavailable ==
    (Handled /\ DatasetEmpty)
    => /\ ret.response.code # 200
       /\ ret.loaded.called => Unavailable(ret.response)

\* C5 witness: the fetch of a request failed, load_flood_data returned the
\* empty list and the request was answered "Failed to load".
C5_Witness ==
    /\ Handled
    /\ ret.loaded.called /\ ret.loaded.fetched /\ Len(ret.loaded.data) = 0
    /\ ~flood_data_cache.set
    /\ Unavailable(ret.response)

\* C9: once a fetch has succeeded the cache is never replaced or cleared
\* and every later call returns it without fetching; a call whose fetch
\* fails returns the empty list and leaves the cache unset, and a call that
\* finds the cache unset fetches.
C9_Step ==
    /\ flood_data_cache.set => flood_data_cache' = flood_data_cache
    /\ call'.op = "load_flood_data" =>
          /\ flood_data_cache.set =>
                ret'.data = flood_data_cache.data /\ ~ret'.fetched
          /\ ~flood_data_cache.set =>
                /\ ret'.fetched
                /\ call'.fetch.ok =>
                      /\ flood_data_cache' = [set |-> TRUE, data |-> call'.fetch.data]
                      /\ ret'.data = call'.fetch.data
                /\ ~call'.fetch.ok =>
                      /\ ~flood_data_cache'.set
                      /\ ret'.data = <<>>

C9_FetchedOnceThenHeld == [][C9_Step]_vars

\* C9 witness: a call of load_flood_data was served from the cache, without
\* a fetch.
C9_Witness ==
    /\ call.op = "load_flood_data"
    /\ flood_data_cache.set
    /\ ~ret.fetched
    /\ ret.data = flood_data_cache.data

\* C10 as claimed: in every 200 response in_flood_zone is true exactly when
\* flood_hazard is not "NONE".
C10_ResultFieldsAgree ==
    (Handled /\ ret.response.code = 200)
    => (ret.response.in_flood_zone <=> ret.response.flood_hazard # "NONE")

====
